---- MODULE Spec2Model ----
(***************************************************************************)
(* Memory location range intersection of TSAR                              *)
(* (lib/Analysis/Memory/MemoryLocationRange.cpp).                          *)
(*                                                                         *)
(* A call MemoryLocationRangeEquation::intersect(LHS, RHS, LC, RC,         *)
(* Threshold) is modelled as a small state machine: Call is the prologue   *)
(* of the function (identity check, delinearization, dispatch to the       *)
(* scalar intersector, the fast path), Axis is one iteration of the loop   *)
(* over the dimensions, including the return that follows the last         *)
(* iteration or a break.  The helpers difference, delinearize and          *)
(* intersectScalar are operators computed as the code computes them.       *)
(***************************************************************************)
EXTENDS Integers, Sequences, FiniteSets, TLC

VARIABLES
  A, B,            \* the caller's arguments (passed by value)
  lcReq, rcReq,    \* LC != nullptr, RC != nullptr
  LC0, RC0,        \* the caller's lists before the call
  Threshold,
  LHS, RHS,        \* the callee's copies (delinearize may rewrite one)
  LC, RC,          \* the caller's lists, appended to by the callee
  IntLoc,          \* the local Int(LHS) of the loop
  I,               \* the loop index, 0-based as in the source
  pc,              \* "call", "loop" or "done"
  ret              \* llvm::Optional<MemoryLocationRange>: {} is llvm::None

vars == <<A, B, lcReq, rcReq, LC0, RC0, Threshold, LHS, RHS, LC, RC, IntLoc, I, pc, ret>>

----------------------------------------------------------------------------
(* Bounds of the enumerated inputs.                                        *)

MaxStart == 2
MaxStep == 3
MaxTrip == 5
MaxThreshold == 2
MaxByte == 4
MaxShift == 1
MaxStepMulti == 2
MaxElemSize == 2
MaxDelinByte == 9

----------------------------------------------------------------------------
(* Values.                                                                 *)

\* llvm::Optional / LocationSize with hasValue(): {} is "no value".
None == {}
Some(v) == {v}
hasValue(o) == o # {}
getValue(o) == CHOOSE v \in o : TRUE

NullPtr == 0

Dim(s, k, n, z) == [Start |-> s, Step |-> k, TripCount |-> n, DimSize |-> z]

Loc(p, kind, lo, up, dims) ==
  [Ptr |-> p, Kind |-> kind, LowerBound |-> lo, UpperBound |-> up, DimList |-> dims]

\* MemoryLocationRange(): the value returned for "imprecise".
DefaultRange == Loc(NullPtr, "DEFAULT", None, None, <<>>)

Max(a, b) == IF a >= b THEN a ELSE b
Min(a, b) == IF a <= b THEN a ELSE b

----------------------------------------------------------------------------
(* difference(D, I, Res, Threshold), lines 37-69.  ok is the returned      *)
(* bool, Res the dimensions pushed to Res when the function returns.       *)

DimEnd(d) == d.Start + d.Step * (d.TripCount - 1)

\* The left fragment with the test of line 39 taken as <=.
DiffLeftInclusive(D, Is) ==
  IF D.Start <= Is.Start
    THEN << Dim(D.Start, D.Step, (Is.Start - D.Start) \div D.Step, D.DimSize) >>
    ELSE << >>

DiffLeft(D, Is) ==
  IF D.Start < Is.Start
    THEN << Dim(D.Start, D.Step, (Is.Start - D.Start) \div D.Step, D.DimSize) >>
    ELSE << >>

DiffRight(D, Is) ==
  IF DimEnd(D) > DimEnd(Is)
    THEN << Dim(DimEnd(Is) + D.Step, D.Step,
                (DimEnd(D) - DimEnd(Is)) \div D.Step, D.DimSize) >>
    ELSE << >>

RepeatNumber(D, Is) == (Is.Step \div D.Step) - 1

CenterStep(D, Is) == D.Step

DiffCenter(D, Is) ==
  [J1 \in 1..RepeatNumber(D, Is) |->
     Dim(Is.Start + D.Step * J1, CenterStep(D, Is), Is.TripCount - 1, D.DimSize)]

\* The function with the test of line 58 letting one more fragment pass.
differenceLateBudget(D, Is, Th) ==
  IF Is.TripCount > 1
    THEN IF RepeatNumber(D, Is) > Th + 1
           THEN [ok |-> FALSE, Res |-> DiffLeft(D, Is) \o DiffRight(D, Is)]
           ELSE [ok |-> TRUE,
                 Res |-> DiffLeft(D, Is) \o DiffRight(D, Is) \o DiffCenter(D, Is)]
    ELSE [ok |-> TRUE, Res |-> DiffLeft(D, Is) \o DiffRight(D, Is)]

\* The function without the test of line 58.
differenceUnbudgeted(D, Is, Th) ==
  IF Is.TripCount > 1
    THEN [ok |-> TRUE,
          Res |-> DiffLeft(D, Is) \o DiffRight(D, Is) \o DiffCenter(D, Is)]
    ELSE [ok |-> TRUE, Res |-> DiffLeft(D, Is) \o DiffRight(D, Is)]

difference(D, Is, Th) ==
  IF Is.TripCount > 1
    THEN IF RepeatNumber(D, Is) > Th
           THEN [ok |-> FALSE, Res |-> DiffLeft(D, Is) \o DiffRight(D, Is)]
           ELSE [ok |-> TRUE,
                 Res |-> DiffLeft(D, Is) \o DiffRight(D, Is) \o DiffCenter(D, Is)]
    ELSE [ok |-> TRUE, Res |-> DiffLeft(D, Is) \o DiffRight(D, Is)]

----------------------------------------------------------------------------
(* intersectScalar(LHS, RHS, LC, RC), lines 161-203.                       *)

ScalarMissingBound(L, R) ==
  \/ ~hasValue(L.LowerBound) \/ ~hasValue(L.UpperBound)
  \/ ~hasValue(R.LowerBound) \/ ~hasValue(R.UpperBound)

\* The disjointness test from the first pair of bounds only.
ScalarProvedApartOneWay(L, R) ==
  /\ hasValue(L.UpperBound) /\ hasValue(R.LowerBound)
  /\ getValue(L.UpperBound) <= getValue(R.LowerBound)

ScalarProvedApart(L, R) ==
  \/ /\ hasValue(L.UpperBound) /\ hasValue(R.LowerBound)
     /\ getValue(L.UpperBound) <= getValue(R.LowerBound)
  \/ /\ hasValue(L.LowerBound) /\ hasValue(R.UpperBound)
     /\ getValue(L.LowerBound) >= getValue(R.UpperBound)

\* The overlap test with touching intervals taken as overlapping.
ScalarOverlapClosed(L, R) ==
  /\ getValue(L.UpperBound) >= getValue(R.LowerBound)
  /\ getValue(L.LowerBound) <= getValue(R.UpperBound)

ScalarOverlap(L, R) ==
  /\ getValue(L.UpperBound) > getValue(R.LowerBound)
  /\ getValue(L.LowerBound) < getValue(R.UpperBound)

ScalarInt(L, R) ==
  [L EXCEPT !.LowerBound = Some(Max(getValue(L.LowerBound), getValue(R.LowerBound))),
            !.UpperBound = Some(Min(getValue(L.UpperBound), getValue(R.UpperBound)))]

\* The leftover with the piece after the intersection forgotten.
ScalarRestLeftOnly(S, N) ==
  IF getValue(S.LowerBound) < getValue(N.LowerBound)
    THEN << [S EXCEPT !.UpperBound = Some(getValue(N.LowerBound))] >> ELSE << >>

\* The pieces of S left of and right of the intersection N, in that order.
ScalarRest(S, N) ==
  (IF getValue(S.LowerBound) < getValue(N.LowerBound)
     THEN << [S EXCEPT !.UpperBound = Some(getValue(N.LowerBound))] >> ELSE << >>)
  \o
  (IF getValue(S.UpperBound) > getValue(N.UpperBound)
     THEN << [S EXCEPT !.LowerBound = Some(getValue(N.UpperBound))] >> ELSE << >>)

intersectScalar(L, R, lc, rc, LCin, RCin) ==
  IF L.Ptr # R.Ptr THEN [ret |-> None, LC |-> LCin, RC |-> RCin]
  ELSE IF ScalarMissingBound(L, R)
    THEN IF ScalarProvedApart(L, R)
           THEN [ret |-> None, LC |-> LCin, RC |-> RCin]
           ELSE [ret |-> Some(DefaultRange), LC |-> LCin, RC |-> RCin]
  ELSE IF ScalarOverlap(L, R)
    THEN [ret |-> Some(ScalarInt(L, R)),
          LC |-> IF lc THEN LCin \o ScalarRest(L, ScalarInt(L, R)) ELSE LCin,
          RC |-> IF rc THEN RCin \o ScalarRest(R, ScalarInt(L, R)) ELSE RCin]
  ELSE [ret |-> None, LC |-> LCin, RC |-> RCin]

----------------------------------------------------------------------------
(* delinearize(From, What), lines 97-159.  The result is What as the       *)
(* function leaves it.  Indices are 1-based here, 0-based in the source.   *)

SizesInBytes(From, ElemSize) ==
  LET DimN == Len(From.DimList)
      Sz[i \in 1..(DimN + 1)] ==
        IF i = DimN + 1 THEN ElemSize ELSE From.DimList[i].DimSize * Sz[i + 1]
  IN Sz

RecoverIdx(Addr, CurrSize, NextSize) ==
  IF CurrSize > 0 THEN (Addr % CurrSize) \div NextSize ELSE Addr \div NextSize

LowerIdx(From, Lower, ElemSize) ==
  [i \in 1..Len(From.DimList) |->
     RecoverIdx(Lower, SizesInBytes(From, ElemSize)[i], SizesInBytes(From, ElemSize)[i + 1])]

UpperIdx(From, Upper, ElemSize) ==
  [i \in 1..Len(From.DimList) |->
     RecoverIdx(Upper - 1, SizesInBytes(From, ElemSize)[i], SizesInBytes(From, ElemSize)[i + 1])]

DelinTripCount(lo, up) == up - lo + 1

DelinDims(From, Lo, Up) ==
  [i \in 1..Len(From.DimList) |->
     Dim(Lo[i], 1, DelinTripCount(Lo[i], Up[i]), From.DimList[i].DimSize)]

\* Line 132: the innermost axis is covered from 0 to DimSize - 1.
DelinInnerFull(From, Lo, Up) ==
  LET DimN == Len(From.DimList)
  IN Lo[DimN] = 0 /\ Up[DimN] + 1 = From.DimList[DimN].DimSize

\* Lines 134-136: source indices 1 .. DimN-2 are covered in full.
DelinMiddleFull(From, Lo, Up) ==
  \A i \in 2..(Len(From.DimList) - 1) :
    Lo[i] = 0 /\ Up[i] + 1 = From.DimList[i].DimSize

\* Lines 146-148: source indices 0 .. DimN-2 are the same on both ends.
DelinSingleRow(From, Lo, Up) ==
  \A i \in 1..(Len(From.DimList) - 1) : Lo[i] = Up[i]

DelinShapeOk(From, Lo, Up) ==
  IF DelinInnerFull(From, Lo, Up)
    THEN DelinMiddleFull(From, Lo, Up)
    ELSE DelinSingleRow(From, Lo, Up)

\* The preconditions without the divisibility tests of line 114.
DelinPreconditionUnaligned(From, What) ==
  /\ What.Kind = "DEFAULT" /\ From.Kind = "COLLAPSED"
  /\ hasValue(What.LowerBound) /\ hasValue(What.UpperBound)
  /\ getValue(What.LowerBound) < getValue(What.UpperBound)
  /\ Len(From.DimList) # 0

DelinPrecondition(From, What) ==
  /\ What.Kind = "DEFAULT" /\ From.Kind = "COLLAPSED"
  /\ hasValue(What.LowerBound) /\ hasValue(What.UpperBound)
  /\ getValue(What.LowerBound) < getValue(What.UpperBound)
  /\ Len(From.DimList) # 0
  /\ getValue(What.LowerBound) % getValue(From.UpperBound) = 0
  /\ getValue(What.UpperBound) % getValue(From.UpperBound) = 0

delinearize(From, What) ==
  IF ~DelinPrecondition(From, What) THEN What
  ELSE LET ElemSize == getValue(From.UpperBound)
           Lo == LowerIdx(From, getValue(What.LowerBound), ElemSize)
           Up == UpperIdx(From, getValue(What.UpperBound), ElemSize)
       IN IF DelinShapeOk(From, Lo, Up)
            THEN [What EXCEPT !.DimList = DelinDims(From, Lo, Up), !.Kind = "COLLAPSED"]
            ELSE What

----------------------------------------------------------------------------
(* The solver of K1 * x - K2 * y = L2 - L1 over the integers               *)
(* (milp::BinomialSystem of bcl/Equation.h, used at lines 258-272).  Its   *)
(* code is not part of the sources at hand; it is modelled as an exact     *)
(* Bezout solver: no solution unless gcd(K1, K2) divides the right-hand    *)
(* side, otherwise the line x = SA + SB * T, y = SC + SD * T with          *)
(* SB = K2 / gcd and SD = K1 / gcd.  Which particular solution the solver  *)
(* reports is not fixed: t0 selects one.                                   *)

RECURSIVE GCD(_, _)
GCD(a, b) == IF b = 0 THEN a ELSE GCD(b, a % b)

SolutionNumber(K1, K2, c) == IF c % GCD(K1, K2) = 0 THEN 1 ELSE 0

Solution(K1, K2, c, t0) ==
  LET g == GCD(K1, K2)
      SB == K2 \div g
      SD == K1 \div g
      x0 == CHOOSE x \in 0..(SB - 1) : (K1 * x - c) % K2 = 0
      y0 == (K1 * x0 - c) \div K2
  IN [SA |-> x0 + SB * t0, SB |-> SB, SC |-> y0 + SD * t0, SD |-> SD]

SolverShifts == { 0 - MaxShift, 0, MaxShift }

----------------------------------------------------------------------------
(* One iteration of the loop of intersect, lines 238-323.                  *)

\* std::ceil and std::floor of a quotient by a positive divisor (273-277).
CeilDiv(n, d) == 0 - ((0 - n) \div d)
FloorDiv(n, d) == n \div d

\* The extent test with touching extents taken as apart.
ExtentsApartClosed(Left, Right) ==
  DimEnd(Left) <= Right.Start \/ DimEnd(Right) <= Left.Start

\* Line 245.
ExtentsApart(Left, Right) ==
  DimEnd(Left) < Right.Start \/ DimEnd(Right) < Left.Start

\* Lines 255-261: the system K1 * x - K2 * y = L2 - L1.
AxisSolvable(Left, Right) ==
  SolutionNumber(Left.Step, Right.Step, Right.Start - Left.Start) # 0

AxisSolution(Left, Right, t0) ==
  Solution(Left.Step, Right.Step, Right.Start - Left.Start, t0)

\* Tmin with the lower window edges rounded down instead of up.
TminRoundedDown(Left, Right, t0) ==
  LET s == AxisSolution(Left, Right, t0)
  IN Max(FloorDiv(0 - s.SA, s.SB), FloorDiv(0 - s.SC, s.SD))

\* Tmax from the window of x alone.
TmaxOfXOnly(Left, Right, t0) ==
  LET s == AxisSolution(Left, Right, t0)
  IN FloorDiv((Left.TripCount - 1) - s.SA, s.SB)

\* Tmin from the window of x alone.
TminOfXOnly(Left, Right, t0) ==
  LET s == AxisSolution(Left, Right, t0)
  IN CeilDiv(0 - s.SA, s.SB)

\* Lines 273-279.
Tmin(Left, Right, t0) ==
  LET s == AxisSolution(Left, Right, t0)
  IN Max(CeilDiv(0 - s.SA, s.SB), CeilDiv(0 - s.SC, s.SD))

Tmax(Left, Right, t0) ==
  LET s == AxisSolution(Left, Right, t0)
  IN Min(FloorDiv((Left.TripCount - 1) - s.SA, s.SB),
         FloorDiv((Right.TripCount - 1) - s.SC, s.SD))

\* The intersection keeping the stride of the left side.
IntersectionStepOfLeft(Left, Right, t0) ==
  LET s == AxisSolution(Left, Right, t0)
      Shift == Tmin(Left, Right, t0)
      Step == Left.Step * s.SB
      Start == (Left.Step * s.SA + Left.Start) + Step * Shift
  IN Dim(Start, Left.Step, (Tmax(Left, Right, t0) - Shift) + 1, Left.DimSize)

\* The intersection with Start taken at the particular solution itself.
IntersectionUnshifted(Left, Right, t0) ==
  LET s == AxisSolution(Left, Right, t0)
      Shift == Tmin(Left, Right, t0)
      Step == Left.Step * s.SB
      Start == Left.Step * s.SA + Left.Start
  IN Dim(Start, Step, (Tmax(Left, Right, t0) - Shift) + 1, Left.DimSize)

\* Lines 284-293.
Intersection(Left, Right, t0) ==
  LET s == AxisSolution(Left, Right, t0)
      Shift == Tmin(Left, Right, t0)
      Step == Left.Step * s.SB
      Start == (Left.Step * s.SA + Left.Start) + Step * Shift
  IN Dim(Start, Step, (Tmax(Left, Right, t0) - Shift) + 1, Left.DimSize)

\* The appending with the fragments that difference had pushed before it
\* gave up kept in front of the marker.
RestKeepsPartial(S, i, Inter, Th) ==
  LET d == difference(S.DimList[i + 1], Inter, Th)
      fr == [j \in 1..Len(d.Res) |-> [S EXCEPT !.DimList[i + 1] = d.Res[j]]]
  IN IF ~d.ok
       THEN fr \o << [S EXCEPT !.DimList = << >>, !.Kind = "NON_COLLAPSABLE"] >>
       ELSE fr

\* Lines 297-309 (and 310-322): what is appended to the list of side S.
Rest(S, i, Inter, Th) ==
  LET d == difference(S.DimList[i + 1], Inter, Th)
  IN IF ~d.ok
       THEN << [S EXCEPT !.DimList = << >>, !.Kind = "NON_COLLAPSABLE"] >>
       ELSE [j \in 1..Len(d.Res) |-> [S EXCEPT !.DimList[i + 1] = d.Res[j]]]

\* The iteration giving up with the imprecise value when the complement
\* of the left side exceeds the budget.
AxisBodyStopsOnOverflow(L, R, N, LCin, RCin, i, lc, rc, Th, t0) ==
  LET Left == L.DimList[i + 1]
      Right == R.DimList[i + 1]
  IN IF Left.DimSize # Right.DimSize
       THEN [exit |-> "imprecise", Int |-> N, LC |-> LCin, RC |-> RCin]
     ELSE IF ExtentsApart(Left, Right)
       THEN [exit |-> "break", Int |-> N, LC |-> LCin, RC |-> RCin]
     ELSE IF ~AxisSolvable(Left, Right)
       THEN [exit |-> "break", Int |-> N, LC |-> LCin, RC |-> RCin]
     ELSE IF Tmax(Left, Right, t0) < Tmin(Left, Right, t0)
       THEN [exit |-> "break", Int |-> N, LC |-> LCin, RC |-> RCin]
     ELSE LET Inter == Intersection(Left, Right, t0)
          IN [exit |-> IF lc /\ ~difference(Left, Inter, Th).ok
                         THEN "imprecise" ELSE "next",
              Int |-> [N EXCEPT !.DimList[i + 1] = Inter],
              LC |-> IF lc THEN LCin \o Rest(L, i, Inter, Th) ELSE LCin,
              RC |-> IF rc THEN RCin \o Rest(R, i, Inter, Th) ELSE RCin]

\* The iteration for source index i: exit is "imprecise" (return at 242),
\* "break" (246, 263, 281) or "next".
AxisBody(L, R, N, LCin, RCin, i, lc, rc, Th, t0) ==
  LET Left == L.DimList[i + 1]
      Right == R.DimList[i + 1]
  IN IF Left.DimSize # Right.DimSize
       THEN [exit |-> "imprecise", Int |-> N, LC |-> LCin, RC |-> RCin]
     ELSE IF ExtentsApart(Left, Right)
       THEN [exit |-> "break", Int |-> N, LC |-> LCin, RC |-> RCin]
     ELSE IF ~AxisSolvable(Left, Right)
       THEN [exit |-> "break", Int |-> N, LC |-> LCin, RC |-> RCin]
     ELSE IF Tmax(Left, Right, t0) < Tmin(Left, Right, t0)
       THEN [exit |-> "break", Int |-> N, LC |-> LCin, RC |-> RCin]
     ELSE LET Inter == Intersection(Left, Right, t0)
          IN [exit |-> "next",
              Int |-> [N EXCEPT !.DimList[i + 1] = Inter],
              LC |-> IF lc THEN LCin \o Rest(L, i, Inter, Th) ELSE LCin,
              RC |-> IF rc THEN RCin \o Rest(R, i, Inter, Th) ELSE RCin]

----------------------------------------------------------------------------
(* MemoryLocationRangeEquation::intersect, lines 206-328.                  *)

\* The test of line 221 with one side compared to itself.
PtrMismatchSelf(a, b) == a.Ptr # a.Ptr

\* Line 221.
PtrMismatch(a, b) == a.Ptr # b.Ptr

\* Lines 223-226: <<LHS, RHS>> after the delinearization attempt.
Delinearized(a, b) ==
  IF a.Kind = "DEFAULT" /\ b.Kind = "COLLAPSED" THEN << delinearize(b, a), b >>
  ELSE IF b.Kind = "DEFAULT" /\ a.Kind = "COLLAPSED" THEN << a, delinearize(a, b) >>
  ELSE << a, b >>

\* The test of line 231 inverted.
AxisCountMismatchInverted(L, R) == Len(L.DimList) = Len(R.DimList)

\* The test of line 231 catching only a longer left list.
AxisCountMismatchLeftLonger(L, R) == Len(L.DimList) > Len(R.DimList)

\* Line 231.
AxisCountMismatch(L, R) == Len(L.DimList) # Len(R.DimList)

\* Lines 233-234.
SameRegion(L, R) ==
  L.LowerBound = R.LowerBound /\ L.UpperBound = R.UpperBound /\ L.DimList = R.DimList

\* Lines 217-237: everything before the loop.  pc is "done" when the
\* function has returned, "loop" when it enters the loop at index 0.
Prologue(a, b, lc, rc, LCin, RCin) ==
  LET L == Delinearized(a, b)[1]
      R == Delinearized(a, b)[2]
      Done(r, l1, r1) ==
        [pc |-> "done", ret |-> r, LHS |-> L, RHS |-> R, LC |-> l1, RC |-> r1]
  IN IF PtrMismatch(a, b)
       THEN [pc |-> "done", ret |-> None, LHS |-> a, RHS |-> b, LC |-> LCin, RC |-> RCin]
     ELSE IF L.Kind # "COLLAPSED" /\ R.Kind # "COLLAPSED"
       THEN LET sc == intersectScalar(L, R, lc, rc, LCin, RCin)
            IN Done(sc.ret, sc.LC, sc.RC)
     ELSE IF L.Kind # "COLLAPSED" \/ R.Kind # "COLLAPSED"
       THEN Done(Some(DefaultRange), LCin, RCin)
     ELSE IF AxisCountMismatch(L, R)
       THEN Done(Some(DefaultRange), LCin, RCin)
     ELSE IF SameRegion(L, R)
       THEN Done(Some(L), LCin, RCin)
     ELSE IF Len(L.DimList) = 0
       THEN Done(Some(L), LCin, RCin)
     ELSE [pc |-> "loop", ret |-> None, LHS |-> L, RHS |-> R, LC |-> LCin, RC |-> RCin]

\* The loop from source index i on, and the return after it (324-327).
RECURSIVE LoopFrom(_, _, _, _, _, _, _, _, _, _)
LoopFrom(L, R, N, LCin, RCin, i, lc, rc, Th, t0) ==
  LET b == AxisBody(L, R, N, LCin, RCin, i, lc, rc, Th, t0)
  IN IF b.exit = "imprecise" THEN [ret |-> Some(DefaultRange), LC |-> b.LC, RC |-> b.RC]
     ELSE IF b.exit = "break" THEN [ret |-> None, LC |-> b.LC, RC |-> b.RC]
     ELSE IF i + 1 < Len(L.DimList)
       THEN LoopFrom(L, R, b.Int, b.LC, b.RC, i + 1, lc, rc, Th, t0)
     ELSE [ret |-> Some(b.Int), LC |-> b.LC, RC |-> b.RC]

\* The whole call as a function of its arguments.
intersect(a, b, lc, rc, LCin, RCin, Th, t0) ==
  LET p == Prologue(a, b, lc, rc, LCin, RCin)
  IN IF p.pc = "done" THEN [ret |-> p.ret, LC |-> p.LC, RC |-> p.RC]
     ELSE LoopFrom(p.LHS, p.RHS, p.LHS, p.LC, p.RC, 0, lc, rc, Th, t0)

----------------------------------------------------------------------------
(* Inputs.                                                                 *)

Ptr1 == 1
Ptr2 == 2

\* A collapsed location of an array of elements of e bytes.
CollapsedLoc(p, e, dims) == Loc(p, "COLLAPSED", Some(0), Some(e), dims)

\* Well-formed dimensions of an axis of size z (z = 0: size unknown).
WellFormed(d) ==
  /\ d.Start >= 0 /\ d.Step > 0 /\ d.TripCount > 0
  /\ d.DimSize > 0 => DimEnd(d) < d.DimSize

DimsOf(z, maxStart, maxStep, maxTrip) ==
  { d \in { Dim(s, k, n, z) : s \in 0..maxStart, k \in 1..maxStep, n \in 1..maxTrip } :
      WellFormed(d) }

\* An entry that a list may hold before the call.
PriorLoc == Loc(Ptr2, "DEFAULT", Some(0), Some(1), << >>)

\* Which lists the caller passes; a list passed holds one earlier entry.
ListSetups == [lc : BOOLEAN, rc : BOOLEAN, prior : { << PriorLoc >> }]

InitCall(a, b, ls, th) ==
  /\ A = a /\ B = b
  /\ lcReq = ls.lc /\ rcReq = ls.rc
  /\ LC0 = (IF ls.lc THEN ls.prior ELSE << >>)
  /\ RC0 = (IF ls.rc THEN ls.prior ELSE << >>)
  /\ Threshold = th
  /\ LHS = a /\ RHS = b
  /\ LC = (IF ls.lc THEN ls.prior ELSE << >>)
  /\ RC = (IF ls.rc THEN ls.prior ELSE << >>)
  /\ IntLoc = a
  /\ I = 0
  /\ pc = "call"
  /\ ret = None

\* The examples of the specification: [0,10) against [5,15), and the
\* stride-2 range {0,2,4,6,8} against 0..9.
ExamplePairs ==
  { << Loc(Ptr1, "DEFAULT", Some(0), Some(10), << >>),
       Loc(Ptr1, "DEFAULT", Some(5), Some(15), << >>) >>,
    << CollapsedLoc(Ptr1, 1, << Dim(0, 2, 5, 10) >>),
       CollapsedLoc(Ptr1, 1, << Dim(0, 1, 10, 10) >>) >> }

\* Single-axis collapsed locations of one array.
AxisSize == MaxStart + MaxStep * (MaxTrip - 1) + 1
AxisLocs ==
  { CollapsedLoc(Ptr1, 1, << d >>) : d \in DimsOf(AxisSize, MaxStart, MaxStep, MaxTrip) }

\* Scalar locations of an object; a bound may be absent.
OptBytes == { None } \cup { Some(v) : v \in 0..MaxByte }
ScalarLocsOf(p) == { Loc(p, "DEFAULT", lo, up, << >>) : lo \in OptBytes, up \in OptBytes }
ScalarLocs == ScalarLocsOf(Ptr1)

\* Two-axis collapsed locations: an array of 2 x 3 elements against the
\* same array, and against one whose inner axis has another size.
MultiDims(z) == DimsOf(z, z - 1, MaxStepMulti, z)
MultiLocs(shape) ==
  { CollapsedLoc(Ptr1, 1, << d1, d2 >>) :
      d1 \in MultiDims(shape[1]), d2 \in MultiDims(shape[2]) }
MultiPairs ==
  MultiLocs(<< 2, 3 >>) \X (MultiLocs(<< 2, 3 >>) \cup MultiLocs(<< 2, 2 >>))

\* Rows of 5 elements: whole rows and strided parts of them.
WideLocs ==
  { CollapsedLoc(Ptr1, 1, << d1, d2 >>) :
      d1 \in MultiDims(2), d2 \in { Dim(0, 1, 5, 5), Dim(0, 2, 3, 5), Dim(1, 2, 2, 5) } }
WidePairs == WideLocs \X WideLocs

\* 5 x 5 elements: whole, leading and strided ranges on both axes.
SquareDims ==
  { Dim(0, 1, 5, 5), Dim(0, 1, 3, 5), Dim(0, 2, 3, 5), Dim(1, 2, 2, 5) }
SquareLocs ==
  { CollapsedLoc(Ptr1, 1, << d1, d2 >>) : d1 \in SquareDims, d2 \in SquareDims }
SquarePairs == SquareLocs \X SquareLocs

\* Locations of every kind: scalar ones, collapsed ones of one axis of
\* 3 elements and of 2 x 2 elements (unit stride), and the marker of a
\* location that could not be refined.
UnitDims(z) == DimsOf(z, z - 1, 1, z)
ElemSizes == 1..MaxElemSize
AnyLocs(p, e) ==
  ScalarLocsOf(p)
  \cup { CollapsedLoc(p, e, << d >>) : d \in MultiDims(3) }
  \cup { CollapsedLoc(p, e, << d1, d2 >>) : d1 \in UnitDims(2), d2 \in UnitDims(2) }
  \cup { Loc(p, "NON_COLLAPSABLE", Some(0), Some(e), << >>) }
AnyPairs ==
  UNION { AnyLocs(Ptr1, e) \X (AnyLocs(Ptr1, e) \cup AnyLocs(Ptr2, e)) : e \in ElemSizes }

\* Sources and targets of a delinearization: collapsed locations of no
\* axis, of 3, 2 x 2 and 2 x 2 x 2 elements and of rows of 2 elements
\* with an unknown number of rows (DimSize 0 on axis 0), each axis either
\* whole or reduced to its last index; flat byte ranges of the same
\* object, a bound of which may be absent.
SourceDims(z) ==
  IF z = 0 THEN { Dim(0, 1, 3, 0), Dim(2, 1, 1, 0) }
  ELSE { Dim(0, 1, z, z), Dim(z - 1, 1, 1, z) }
SourceDimLists ==
  { << >> }
  \cup { << d >> : d \in SourceDims(3) }
  \cup { << d1, d2 >> : d1 \in SourceDims(2) \cup SourceDims(0), d2 \in SourceDims(2) }
  \cup { << d1, d2, d3 >> :
           d1 \in SourceDims(2), d2 \in SourceDims(2), d3 \in SourceDims(2) }
DelinSources(e) == { CollapsedLoc(Ptr1, e, dims) : dims \in SourceDimLists }
OptDelinBytes == { None } \cup { Some(v) : v \in 0..MaxDelinByte }
DelinTargets ==
  { Loc(Ptr1, "DEFAULT", lo, up, << >>) : lo \in OptDelinBytes, up \in OptDelinBytes }
DelinPairs ==
  UNION { (DelinSources(e) \X DelinTargets) \cup (DelinTargets \X DelinSources(e)) :
            e \in ElemSizes }

InitOver(pairs) ==
  \E pr \in pairs \cup ExamplePairs, ls \in ListSetups, th \in 0..MaxThreshold :
    InitCall(pr[1], pr[2], ls, th)

InitAxis == InitOver(AxisLocs \X AxisLocs)
InitScalar == InitOver(ScalarLocs \X ScalarLocs)
InitMulti ==
  InitOver(MultiPairs \cup WidePairs \cup SquarePairs \cup (ScalarLocs \X ScalarLocs))
InitDelin == InitOver(DelinPairs)
Init == InitOver(AnyPairs)

----------------------------------------------------------------------------
(* Actions.                                                                *)

\* Lines 217-237.
Call ==
  /\ pc = "call"
  /\ LET p == Prologue(A, B, lcReq, rcReq, LC, RC)
     IN /\ pc' = p.pc
        /\ ret' = p.ret
        /\ LHS' = p.LHS /\ RHS' = p.RHS
        /\ LC' = p.LC /\ RC' = p.RC
        /\ IntLoc' = p.LHS
  /\ I' = 0
  /\ UNCHANGED <<A, B, lcReq, rcReq, LC0, RC0, Threshold>>

\* Lines 238-327: one iteration, and the return when the loop ends.
Axis ==
  /\ pc = "loop"
  /\ \E t0 \in SolverShifts :
       LET b == AxisBody(LHS, RHS, IntLoc, LC, RC, I, lcReq, rcReq, Threshold, t0)
           last == b.exit # "next" \/ I + 1 >= Len(LHS.DimList)
       IN /\ IntLoc' = b.Int
          /\ LC' = b.LC /\ RC' = b.RC
          /\ pc' = (IF last THEN "done" ELSE "loop")
          /\ I' = (IF last THEN I ELSE I + 1)
          /\ ret' = (IF b.exit = "imprecise" THEN Some(DefaultRange)
                     ELSE IF b.exit = "break" THEN None
                     ELSE IF last THEN Some(b.Int) ELSE None)
  /\ UNCHANGED <<A, B, lcReq, rcReq, LC0, RC0, Threshold, LHS, RHS>>

Next == Call \/ Axis

Spec == Init /\ [][Next]_vars
SpecAxis == InitAxis /\ [][Next]_vars
SpecMulti == InitMulti /\ [][Next]_vars
SpecScalar == InitScalar /\ [][Next]_vars
SpecDelin == InitDelin /\ [][Next]_vars


----------------------------------------------------------------------------
(* Vocabulary of the properties.                                           *)

\* The index set {Start + k * Step : 0 <= k < TripCount} of a dimension.
IndexSet(d) == { d.Start + k * d.Step : k \in 0..(d.TripCount - 1) }

\* The byte interval [Lower, Upper) of a fully bounded scalar location.
Interval(l) == { x \in getValue(l.LowerBound)..(getValue(l.UpperBound) - 1) : TRUE }

Outcome(r) ==
  IF r = None THEN "disjoint"
  ELSE IF r = Some(DefaultRange) THEN "imprecise"
  ELSE "exact"

RetVal == getValue(ret)

\* What the call has appended to a list that held l0 before.
Appended(l, l0) == SubSeq(l, Len(l0) + 1, Len(l))

Bounded(l) == hasValue(l.LowerBound) /\ hasValue(l.UpperBound)

BothScalar == A.Kind = "DEFAULT" /\ B.Kind = "DEFAULT" /\ A.Ptr = B.Ptr

\* Two collapsed locations of the same object with the same number of
\* axes, the same size on every axis and well-formed dimensions.
MatchingCollapsed ==
  /\ A.Kind = "COLLAPSED" /\ B.Kind = "COLLAPSED"
  /\ A.Ptr = B.Ptr /\ A.Ptr # NullPtr
  /\ Len(A.DimList) = Len(B.DimList)
  /\ \A i \in 1..Len(A.DimList) :
       /\ A.DimList[i].DimSize = B.DimList[i].DimSize
       /\ WellFormed(A.DimList[i]) /\ WellFormed(B.DimList[i])

SingleAxisPair == MatchingCollapsed /\ Len(A.DimList) = 1

----------------------------------------------------------------------------
(* Properties of the single-axis intersection (SpecAxis).                  *)

\* C1: for two single-axis collapsed locations of the same object with
\* equal DimSize and well-formed dimensions, the dimension of an exact
\* result denotes exactly the intersection of the two index sets.
C1_ExactIsSetIntersection ==
  (pc = "done" /\ SingleAxisPair /\ Outcome(ret) = "exact") =>
    /\ Len(RetVal.DimList) = 1
    /\ IndexSet(RetVal.DimList[1]) = IndexSet(A.DimList[1]) \cap IndexSet(B.DimList[1])

\* A call that went through the solver with two different strides and
\* found more than one common index.
C1_Witness ==
  /\ pc = "done" /\ SingleAxisPair /\ Outcome(ret) = "exact"
  /\ A.DimList[1].Step = 2 /\ B.DimList[1].Step = 3
  /\ A.DimList[1].Start # B.DimList[1].Start
  /\ RetVal.DimList[1].TripCount >= 2

\* C2: two single-axis collapsed locations of the same object with equal
\* DimSize whose index sets share no integer yield llvm::None.
C2_NoCommonIndexIsDisjoint ==
  (/\ pc = "done" /\ SingleAxisPair
   /\ IndexSet(A.DimList[1]) \cap IndexSet(B.DimList[1]) = {}) =>
    ret = None

\* Interleaved ranges with a solvable equation whose solutions all lie
\* outside the two trip-count windows.
C2_Witness ==
  /\ pc = "done" /\ SingleAxisPair /\ ret = None
  /\ ~ExtentsApart(A.DimList[1], B.DimList[1])
  /\ AxisSolvable(A.DimList[1], B.DimList[1])
  /\ IndexSet(A.DimList[1]) \cap IndexSet(B.DimList[1]) = {}

\* The index sets of the fragments appended for side S to list l.
FragmentIndexSets(l, l0) ==
  { IndexSet(Appended(l, l0)[j].DimList[1]) : j \in 1..Len(Appended(l, l0)) }

\* C10: when the stride ratio minus one is within Threshold, the fragments
\* that difference(D, I) produces hold no element of I and together
\* are exactly D's index set minus I's; for {0,2,4,6,8} against 0..9 the
\* list of the left side stays empty and the fragments of the right side
\* cover exactly the odd indices.
C10_DifferenceIsExact ==
  (pc = "done" /\ SingleAxisPair /\ Outcome(ret) = "exact" /\ A # B) =>
    /\ (lcReq /\ RepeatNumber(A.DimList[1], RetVal.DimList[1]) <= Threshold) =>
         UNION FragmentIndexSets(LC, LC0)
           = IndexSet(A.DimList[1]) \ IndexSet(RetVal.DimList[1])
    /\ (rcReq /\ RepeatNumber(B.DimList[1], RetVal.DimList[1]) <= Threshold) =>
         UNION FragmentIndexSets(RC, RC0)
           = IndexSet(B.DimList[1]) \ IndexSet(RetVal.DimList[1])

----------------------------------------------------------------------------
(* Properties of the scalar intersector (SpecScalar).                      *)

\* The pieces appended for side S and the result partition S's interval.
ScalarPartition(S, l, l0) ==
  LET fr == Appended(l, l0)
  IN /\ Len(fr) <= 2
     /\ \A j \in 1..Len(fr) :
          /\ Bounded(fr[j]) /\ Interval(fr[j]) # {}
          /\ Interval(fr[j]) \cap Interval(RetVal) = {}
          /\ \/ fr[j] = [S EXCEPT !.UpperBound = RetVal.LowerBound]
             \/ fr[j] = [S EXCEPT !.LowerBound = RetVal.UpperBound]
     /\ \A j, k \in 1..Len(fr) : j # k => Interval(fr[j]) \cap Interval(fr[k]) = {}
     /\ UNION { Interval(fr[j]) : j \in 1..Len(fr) } \cup Interval(RetVal) = Interval(S)

\* C6: for two scalar locations of the same object with all four bounds
\* and overlapping intervals the result is [max Lower, min Upper); each
\* requested list receives at most two pieces, the non-empty part of its
\* side before the overlap and the non-empty part after it, each being
\* that side with one bound replaced, so that pieces and intersection
\* partition the side's interval.
C6_ScalarOverlap ==
  (/\ pc = "done" /\ BothScalar /\ Bounded(A) /\ Bounded(B)
   /\ Interval(A) \cap Interval(B) # {}) =>
    /\ Outcome(ret) = "exact"
    /\ RetVal.Kind = "DEFAULT" /\ RetVal.Ptr = A.Ptr
    /\ Bounded(RetVal)
    /\ getValue(RetVal.LowerBound) = Max(getValue(A.LowerBound), getValue(B.LowerBound))
    /\ getValue(RetVal.UpperBound) = Min(getValue(A.UpperBound), getValue(B.UpperBound))
    /\ IF lcReq THEN ScalarPartition(A, LC, LC0) ELSE LC = LC0
    /\ IF rcReq THEN ScalarPartition(B, RC, RC0) ELSE RC = RC0

\* The example [0,10) against [5,15): [5,10), LC = {[0,5)}, RC = {[10,15)}.
C6_Witness ==
  /\ pc = "done" /\ lcReq /\ rcReq
  /\ A = Loc(Ptr1, "DEFAULT", Some(0), Some(10), << >>)
  /\ B = Loc(Ptr1, "DEFAULT", Some(5), Some(15), << >>)
  /\ ret = Some(Loc(Ptr1, "DEFAULT", Some(5), Some(10), << >>))
  /\ Appended(LC, LC0) = << Loc(Ptr1, "DEFAULT", Some(0), Some(5), << >>) >>
  /\ Appended(RC, RC0) = << Loc(Ptr1, "DEFAULT", Some(10), Some(15), << >>) >>

\* C7: with all four bounds present the scalar intersector returns
\* llvm::None exactly when LHS.Upper <= RHS.Lower or RHS.Upper <= LHS.Lower,
\* and then appends nothing.
C7_ScalarDisjoint ==
  (pc = "done" /\ BothScalar /\ Bounded(A) /\ Bounded(B)) =>
    /\ ret = None <=>
         \/ getValue(A.UpperBound) <= getValue(B.LowerBound)
         \/ getValue(B.UpperBound) <= getValue(A.LowerBound)
    /\ ret = None => (LC = LC0 /\ RC = RC0)

\* Two touching intervals, both lists requested.
C7_Witness ==
  /\ pc = "done" /\ BothScalar /\ Bounded(A) /\ Bounded(B)
  /\ lcReq /\ rcReq /\ ret = None
  /\ Interval(A) # {} /\ Interval(B) # {}
  /\ getValue(A.UpperBound) = getValue(B.LowerBound)

\* C8: when one of the four bounds is absent the result is llvm::None
\* exactly when two bounds that exist prove the locations apart, and the
\* bound-less default location otherwise; nothing is appended and no
\* exact interval is returned.
C8_ScalarMissingBound ==
  (pc = "done" /\ BothScalar /\ ~(Bounded(A) /\ Bounded(B))) =>
    LET apart ==
          \/ \E u \in A.UpperBound, l \in B.LowerBound : u <= l
          \/ \E l \in A.LowerBound, u \in B.UpperBound : l >= u
    IN /\ apart => ret = None
       /\ ~apart => /\ ret # None
                    /\ RetVal = DefaultRange
                    /\ ~hasValue(RetVal.LowerBound) /\ ~hasValue(RetVal.UpperBound)
       /\ Outcome(ret) # "exact"
       /\ LC = LC0 /\ RC = RC0

\* A lower bound is absent on the left and the left location is proved
\* to lie behind the right one.
C8_Witness ==
  /\ pc = "done" /\ BothScalar /\ lcReq /\ rcReq
  /\ ~hasValue(A.UpperBound) /\ hasValue(A.LowerBound) /\ Bounded(B)
  /\ getValue(A.LowerBound) >= getValue(B.UpperBound)
  /\ ret = None

----------------------------------------------------------------------------
(* Properties of the loop over the axes (SpecMulti) and of the dispatch    *)
(* (Spec).                                                                 *)

\* The multi-index tuples of a list of dimensions.
RECURSIVE Tuples(_)
Tuples(dims) ==
  IF dims = << >> THEN { << >> }
  ELSE { << x >> \o t : x \in IndexSet(Head(dims)), t \in Tuples(Tail(dims)) }

Region(l) == Tuples(l.DimList)

\* C3: llvm::None is returned for two collapsed locations of the same
\* object with matching axes only if no multi-index tuple belongs to both
\* regions, and for two fully bounded scalar locations only if the byte
\* intervals share no address.
C3_DisjointIsSound ==
  /\ (pc = "done" /\ MatchingCollapsed /\ ret = None) =>
       Region(A) \cap Region(B) = {}
  /\ (pc = "done" /\ BothScalar /\ Bounded(A) /\ Bounded(B) /\ ret = None) =>
       Interval(A) \cap Interval(B) = {}

\* The outer axes intersect, the inner ones interleave without a common
\* index: the loop breaks in its second iteration.
C3_Witness ==
  /\ pc = "done" /\ MatchingCollapsed /\ ret = None
  /\ Len(A.DimList) = 2 /\ I = 1
  /\ ~ExtentsApart(A.DimList[2], B.DimList[2])

\* C4: intersect(A, B, LC, RC) and intersect(B, A, RC, LC) return the same
\* outcome kind and, when exact, the same value (Kind, LowerBound,
\* UpperBound, DimList), and the same fragments for A and for B.
C4_Symmetric ==
  (/\ pc = "done" /\ A.Ptr = B.Ptr
   /\ A.Kind \in { "DEFAULT", "COLLAPSED" } /\ B.Kind \in { "DEFAULT", "COLLAPSED" }) =>
    \A t \in SolverShifts :
      LET sw == intersect(B, A, rcReq, lcReq, RC0, LC0, Threshold, t)
      IN /\ Outcome(sw.ret) = Outcome(ret)
         /\ Outcome(ret) = "exact" =>
              /\ getValue(sw.ret).Kind = RetVal.Kind
              /\ getValue(sw.ret).LowerBound = RetVal.LowerBound
              /\ getValue(sw.ret).UpperBound = RetVal.UpperBound
              /\ getValue(sw.ret).DimList = RetVal.DimList
         /\ Appended(sw.RC, LC0) = Appended(LC, LC0)
         /\ Appended(sw.LC, RC0) = Appended(RC, RC0)

\* C5: for two collapsed locations of the same object with equal
\* LowerBound, UpperBound and DimList (in particular for intersect(A, A))
\* the result is LHS in every field and nothing is appended, whatever
\* Threshold is.
C5_IdenticalRegions ==
  (/\ pc = "done"
   /\ A.Kind = "COLLAPSED" /\ B.Kind = "COLLAPSED" /\ A.Ptr = B.Ptr
   /\ A.LowerBound = B.LowerBound /\ A.UpperBound = B.UpperBound
   /\ A.DimList = B.DimList) =>
    /\ ret = Some(A)
    /\ LC = LC0 /\ RC = RC0

\* intersect(A, A) on a two-axis location with both lists requested.
C5_Witness ==
  /\ pc = "done" /\ A = B /\ A.Kind = "COLLAPSED" /\ Len(A.DimList) = 2
  /\ lcReq /\ rcReq /\ Threshold = 0
  /\ ret = Some(A) /\ LC = LC0 /\ RC = RC0

\* The regions of the fragments appended to a list.
FragmentRegions(l, l0) ==
  { Region(Appended(l, l0)[j]) : j \in 1..Len(Appended(l, l0)) }

NoOverflow(l, l0) ==
  \A j \in 1..Len(Appended(l, l0)) : Appended(l, l0)[j].Kind = "COLLAPSED"

\* C9: for two collapsed locations with matching axes, an exact result and
\* no Threshold overflow, the regions of the fragments appended to LC
\* together are the region of LHS minus the returned region, and likewise
\* for RC and RHS.
C9_FragmentsAreTheRest ==
  (pc = "done" /\ MatchingCollapsed /\ Len(A.DimList) >= 1 /\ Outcome(ret) = "exact") =>
    /\ (lcReq /\ NoOverflow(LC, LC0)) =>
         UNION FragmentRegions(LC, LC0) = Region(A) \ Region(RetVal)
    /\ (rcReq /\ NoOverflow(RC, RC0)) =>
         UNION FragmentRegions(RC, RC0) = Region(B) \ Region(RetVal)

----------------------------------------------------------------------------
(* Properties of the complement budget (SpecAxis).                         *)

\* The list of a side holds the marker of an unrefined rest: difference
\* returned false for that side.
Overflowed(l, l0) ==
  /\ Len(Appended(l, l0)) = 1
  /\ Appended(l, l0)[1].Kind = "NON_COLLAPSABLE"

\* The appended fragments that start inside the span of Is, after its
\* first element: the center fragments.
CenterFragments(l, l0, Is) ==
  { j \in 1..Len(Appended(l, l0)) :
      /\ Appended(l, l0)[j].Kind = "COLLAPSED"
      /\ Is.Start < Appended(l, l0)[j].DimList[1].Start
      /\ Appended(l, l0)[j].DimList[1].Start <= DimEnd(Is) }

StrideRatio(D, Is) == Is.Step \div D.Step

BudgetAlwaysEnforced(D, Is, l, l0) ==
  /\ Cardinality(CenterFragments(l, l0, Is)) <= Threshold
  /\ (StrideRatio(D, Is) - 1 > Threshold) => Overflowed(l, l0)

BudgetEnforced(D, Is, l, l0) ==
  /\ Cardinality(CenterFragments(l, l0, Is)) <= Threshold
  /\ (Is.TripCount > 1 /\ StrideRatio(D, Is) - 1 > Threshold) => Overflowed(l, l0)
  /\ Overflowed(l, l0) => (Is.TripCount > 1 /\ StrideRatio(D, Is) - 1 > Threshold)

\* C11 as stated: the complement of D against a sub-range I never holds
\* more than Threshold center fragments, and whenever I.Step / D.Step - 1
\* exceeds Threshold the generator signals overflow.
C11_OverflowWheneverRatioExceeds ==
  (pc = "done" /\ SingleAxisPair /\ Outcome(ret) = "exact") =>
    /\ lcReq => BudgetAlwaysEnforced(A.DimList[1], RetVal.DimList[1], LC, LC0)
    /\ rcReq => BudgetAlwaysEnforced(B.DimList[1], RetVal.DimList[1], RC, RC0)

\* C11 amended: the complement of D against a sub-range I never holds
\* more than Threshold center fragments, and the generator signals
\* overflow exactly when I has more than one element and
\* I.Step / D.Step - 1 exceeds Threshold.
C11_ThresholdEnforced ==
  (pc = "done" /\ SingleAxisPair /\ Outcome(ret) = "exact") =>
    /\ lcReq => BudgetEnforced(A.DimList[1], RetVal.DimList[1], LC, LC0)
    /\ rcReq => BudgetEnforced(B.DimList[1], RetVal.DimList[1], RC, RC0)

\* A complement that needs more center fragments than the budget allows
\* and was replaced by the marker.
C11_Witness ==
  /\ pc = "done" /\ SingleAxisPair /\ Outcome(ret) = "exact" /\ lcReq
  /\ RetVal.DimList[1].TripCount > 1
  /\ StrideRatio(A.DimList[1], RetVal.DimList[1]) - 1 > Threshold
  /\ Threshold > 0
  /\ Overflowed(LC, LC0)

----------------------------------------------------------------------------
(* Properties of the driver's handling of the budget (SpecMulti).          *)

\* The complement of D against Is needs more center fragments than
\* Threshold allows.
ExceedsBudget(D, Is) ==
  Is.TripCount > 1 /\ StrideRatio(D, Is) - 1 > Threshold

\* The marker that stands for the unrefined rest of side S.
Marker(S) ==
  Loc(S.Ptr, "NON_COLLAPSABLE", S.LowerBound, S.UpperBound, << >>)

\* The step is an iteration that computed the intersection on axis I.
AxisIntersected ==
  pc = "loop" /\ (pc' = "loop" \/ Outcome(ret') = "exact")

\* C12: in an iteration where the complement of a side exceeds Threshold,
\* exactly one NON_COLLAPSABLE entry with the side's Ptr and an empty
\* DimList is appended to the side's list, none of the fragments of that
\* axis is, and the intersection on that axis is the plain intersection
\* of the two index sets.
C12_OverflowAppendsOneMarker ==
  [][AxisIntersected =>
       LET Left == LHS.DimList[I + 1]
           Right == RHS.DimList[I + 1]
           Is == IntLoc'.DimList[I + 1]
       IN /\ (lcReq /\ ExceedsBudget(Left, Is)) => LC' = LC \o << Marker(LHS) >>
          /\ (rcReq /\ ExceedsBudget(Right, Is)) => RC' = RC \o << Marker(RHS) >>
          /\ (ExceedsBudget(Left, Is) \/ ExceedsBudget(Right, Is)) =>
                /\ IndexSet(Is) = IndexSet(Left) \cap IndexSet(Right)
                /\ IntLoc' = [IntLoc EXCEPT !.DimList[I + 1] = Is]
                /\ IntLoc'.Kind = "COLLAPSED"]_vars

\* A call on two axes that appended fragments for the first axis and the
\* marker for the second.
C12_Witness ==
  /\ pc = "done" /\ MatchingCollapsed /\ Outcome(ret) = "exact" /\ lcReq
  /\ Len(A.DimList) = 2
  /\ ExceedsBudget(A.DimList[2], RetVal.DimList[2])
  /\ Len(Appended(LC, LC0)) >= 2
  /\ Appended(LC, LC0)[Len(Appended(LC, LC0))] = Marker(A)
  /\ Appended(LC, LC0)[1].Kind = "COLLAPSED"

----------------------------------------------------------------------------
(* Properties of the dispatch before the loop (Spec).                      *)

AxisCountsDiffer ==
  /\ A.Kind = "COLLAPSED" /\ B.Kind = "COLLAPSED"
  /\ A.Ptr = B.Ptr /\ A.Ptr # NullPtr
  /\ Len(A.DimList) # Len(B.DimList)

\* C14: two collapsed locations of the same object with different
\* numbers of axes yield the default MemoryLocationRange without bounds;
\* the loop over the dimensions is never entered and LC and RC stay as
\* they were.
C14_AxisCountMismatchIsImprecise ==
  AxisCountsDiffer =>
    /\ pc # "loop"
    /\ pc = "done" =>
          /\ ret = Some(DefaultRange)
          /\ ~hasValue(RetVal.LowerBound) /\ ~hasValue(RetVal.UpperBound)
          /\ LC = LC0 /\ RC = RC0

\* One axis against two, with both lists requested.
C14_Witness ==
  /\ pc = "done" /\ AxisCountsDiffer
  /\ Len(A.DimList) = 1 /\ Len(B.DimList) = 2
  /\ lcReq /\ rcReq
  /\ ret = Some(DefaultRange)

----------------------------------------------------------------------------
(* Properties of the loop on mismatching axis sizes (SpecMulti).           *)

\* Two collapsed locations of the same object with the same number of
\* axes and a different DimSize on some axis.
DimSizesDiffer ==
  /\ A.Kind = "COLLAPSED" /\ B.Kind = "COLLAPSED"
  /\ A.Ptr = B.Ptr /\ A.Ptr # NullPtr
  /\ Len(A.DimList) = Len(B.DimList)
  /\ \E i \in 1..Len(A.DimList) : A.DimList[i].DimSize # B.DimList[i].DimSize

\* C15: two collapsed locations of the same object with the same number
\* of axes and a different DimSize on some axis yield the imprecise
\* value: no exact and no disjoint result is produced for them.
C15_DimSizeMismatchIsImprecise ==
  (pc = "done" /\ DimSizesDiffer) => ret = Some(DefaultRange)

----------------------------------------------------------------------------
(* Properties of the dispatch on the kinds (Spec).                         *)

\* After the delinearization attempt the two sides of one object are
\* neither both COLLAPSED nor both DEFAULT.
MixedKinds ==
  /\ A.Ptr = B.Ptr /\ A.Ptr # NullPtr
  /\ ~(LHS.Kind = "COLLAPSED" /\ RHS.Kind = "COLLAPSED")
  /\ ~(LHS.Kind = "DEFAULT" /\ RHS.Kind = "DEFAULT")

\* C16: when, after the delinearization attempt, the two sides are not
\* both COLLAPSED, only two DEFAULT sides are compared by their bounds;
\* every other combination (one side COLLAPSED and the other not, or a
\* NON_COLLAPSABLE side) yields the imprecise value whatever the bounds.
C16_OnlyDefaultPairsAreScalar ==
  (pc = "done" /\ MixedKinds) => ret = Some(DefaultRange)

----------------------------------------------------------------------------
(* Properties of the delinearization (SpecDelin).                          *)

\* One argument is a flat range, the other a collapsed location of the
\* same object: lines 223-226 attempt a delinearization.
DelinAttempt ==
  /\ A.Ptr = B.Ptr /\ A.Ptr # NullPtr
  /\ \/ A.Kind = "DEFAULT" /\ B.Kind = "COLLAPSED"
     \/ B.Kind = "DEFAULT" /\ A.Kind = "COLLAPSED"

Target == IF A.Kind = "DEFAULT" THEN A ELSE B
Source == IF A.Kind = "DEFAULT" THEN B ELSE A
TargetAfter == IF A.Kind = "DEFAULT" THEN LHS ELSE RHS
TargetLower == getValue(Target.LowerBound)
TargetUpper == getValue(Target.UpperBound)
SourceElemSize == getValue(Source.UpperBound)

PreconditionsHold ==
  /\ hasValue(Target.LowerBound) /\ hasValue(Target.UpperBound)
  /\ TargetLower < TargetUpper
  /\ Len(Source.DimList) >= 1
  /\ TargetLower % SourceElemSize = 0
  /\ TargetUpper % SourceElemSize = 0

\* The multi-indices recovered for Lower and for Upper - 1.
RecLower == LowerIdx(Source, TargetLower, SourceElemSize)
RecUpper == UpperIdx(Source, TargetUpper, SourceElemSize)

\* Shape (a): the innermost and every other non-outermost axis is spanned
\* in full.  Shape (b): all axes but the innermost have one index.
ShapeFullSpan ==
  DelinInnerFull(Source, RecLower, RecUpper) /\ DelinMiddleFull(Source, RecLower, RecUpper)
ShapeSingleRow == DelinSingleRow(Source, RecLower, RecUpper)

\* The dimensions a successful delinearization is to produce.
RecoveredDims ==
  [i \in 1..Len(Source.DimList) |->
     Dim(RecLower[i], 1, RecUpper[i] - RecLower[i] + 1, Source.DimList[i].DimSize)]

\* C17: when a flat range meets a collapsed location of the same object
\* and a precondition of the delinearization fails (a missing bound,
\* Lower >= Upper, a source without axes, Lower or Upper not divisible by
\* the element size) or neither shape holds, the flat side stays DEFAULT
\* with its empty DimList, the imprecise value is returned and LC and RC
\* stay as they were.
C17_FailedDelinearizationIsImprecise ==
  (/\ pc = "done" /\ DelinAttempt
   /\ ~PreconditionsHold \/ (~ShapeFullSpan /\ ~ShapeSingleRow)) =>
    /\ TargetAfter = Target
    /\ TargetAfter.Kind = "DEFAULT" /\ TargetAfter.DimList = << >>
    /\ ret = Some(DefaultRange)
    /\ LC = LC0 /\ RC = RC0

\* An aligned byte range that crosses a row boundary without covering
\* whole rows, with both lists requested.
C17_Witness ==
  /\ pc = "done" /\ DelinAttempt /\ PreconditionsHold
  /\ ~ShapeFullSpan /\ ~ShapeSingleRow
  /\ Len(Source.DimList) = 2 /\ SourceElemSize = 2
  /\ lcReq /\ rcReq
  /\ ret = Some(DefaultRange)

\* C18: whenever the preconditions hold and all axes but the innermost
\* have the same recovered index for Lower and for Upper - 1, the flat
\* side becomes COLLAPSED with, on each axis, Start the recovered lower
\* index, Step 1, TripCount upper index - lower index + 1 and the DimSize
\* of the source, so that only the innermost axis varies; also when the
\* innermost axis is spanned in full and a middle index is not 0.
C18_SingleRowDelinearizes ==
  (pc # "call" /\ DelinAttempt /\ PreconditionsHold /\ ShapeSingleRow) =>
    /\ TargetAfter.Kind = "COLLAPSED"
    /\ TargetAfter.DimList = RecoveredDims
    /\ \A i \in 1..(Len(TargetAfter.DimList) - 1) : TargetAfter.DimList[i].TripCount = 1

\* The byte addresses of the elements of a list of dimensions, each
\* element of E bytes at its row-major offset.
ByteOffset(t, dims, E) ==
  LET Sz == SizesInBytes([DimList |-> dims], E)
      Sum[i \in 0..Len(dims)] == IF i = 0 THEN 0 ELSE Sum[i - 1] + t[i] * Sz[i + 1]
  IN Sum[Len(dims)]

AddressSet(dims, E) ==
  UNION { ByteOffset(t, dims, E)..(ByteOffset(t, dims, E) + E - 1) : t \in Tuples(dims) }

\* C19: whenever the delinearization of a flat range [Lower, Upper)
\* succeeds, the byte addresses covered by the produced dimensions are
\* exactly Lower .. Upper - 1.
C19_DelinearizationKeepsAddresses ==
  (pc # "call" /\ DelinAttempt /\ TargetAfter.Kind = "COLLAPSED") =>
    AddressSet(TargetAfter.DimList, SourceElemSize) = Interval(Target)

----------------------------------------------------------------------------
(* Properties of the dimensions of the results (SpecMulti).                *)

DimOk(d) == d.Start >= 0 /\ d.Step > 0 /\ d.TripCount > 0

DimsOk(l) == \A i \in 1..Len(l.DimList) : DimOk(l.DimList[i])

ListOk(l, l0) == \A j \in 1..Len(Appended(l, l0)) : DimsOk(Appended(l, l0)[j])

\* The assertions of lines 270, 274 and 294-296 hold in the iteration that
\* is about to run, whichever solution the solver reports.
AssertionsHold ==
  LET Left == LHS.DimList[I + 1]
      Right == RHS.DimList[I + 1]
  IN (/\ Left.DimSize = Right.DimSize
      /\ ~ExtentsApart(Left, Right)
      /\ AxisSolvable(Left, Right)) =>
       \A t0 \in SolverShifts :
         /\ AxisSolution(Left, Right, t0).SB > 0
         /\ AxisSolution(Left, Right, t0).SD > 0
         /\ Tmax(Left, Right, t0) >= Tmin(Left, Right, t0) =>
               DimOk(Intersection(Left, Right, t0))

\* C20: for arguments whose dimensions have Start >= 0, Step > 0 and
\* TripCount > 0, every dimension of an exact result and of every
\* fragment appended to LC or RC has Start >= 0, Step > 0 and
\* TripCount > 0, and the assertions on the slopes B and D of the
\* solution and on the intersection dimension never fail.
C20_ResultDimensionsWellFormed ==
  (DimsOk(A) /\ DimsOk(B)) =>
    /\ pc = "loop" => AssertionsHold
    /\ ListOk(LC, LC0) /\ ListOk(RC, RC0)
    /\ (pc = "done" /\ Outcome(ret) = "exact") => DimsOk(RetVal)

\* A call on two axes whose right list received a center fragment on the
\* second axis and a fragment of the first axis.
C20_Witness ==
  /\ pc = "done" /\ MatchingCollapsed /\ Outcome(ret) = "exact" /\ rcReq
  /\ Len(B.DimList) = 2
  /\ \E j \in 1..Len(Appended(RC, RC0)) :
       /\ Appended(RC, RC0)[j].Kind = "COLLAPSED"
       /\ Appended(RC, RC0)[j].DimList[2].Start > RetVal.DimList[2].Start
       /\ Appended(RC, RC0)[j].DimList[2].Start < DimEnd(RetVal.DimList[2])
  /\ \E j \in 1..Len(Appended(RC, RC0)) :
       /\ Appended(RC, RC0)[j].Kind = "COLLAPSED"
       /\ Appended(RC, RC0)[j].DimList[1] # B.DimList[1]

----------------------------------------------------------------------------
(* Termination (SpecMulti).                                                  *)

\* The entries that a step appends to a list.
StepAppended(l1, l) == SubSeq(l1, Len(l) + 1, Len(l1))

\* Those of them that start inside the span of Is on axis i, after its
\* first element: one per iteration of the loop of lines 60-66.
StepCenters(new, Is, i) ==
  { j \in 1..Len(new) :
      /\ new[j].Kind = "COLLAPSED"
      /\ Is.Start < new[j].DimList[i].Start
      /\ new[j].DimList[i].Start <= DimEnd(Is) }

\* An iteration either ends the call or moves to the next axis, and the
\* center loop runs at most Threshold times for each side.
IterationBounded ==
  pc = "loop" =>
    /\ I < Len(LHS.DimList)
    /\ pc' = "loop" => (I' = I + 1 /\ I' < Len(LHS.DimList))
    /\ pc' = "done" \/ pc' = "loop"
    /\ AxisIntersected =>
         /\ Cardinality(StepCenters(StepAppended(LC', LC), IntLoc'.DimList[I + 1], I + 1))
              <= Threshold
         /\ Cardinality(StepCenters(StepAppended(RC', RC), IntLoc'.DimList[I + 1], I + 1))
              <= Threshold

\* The number of steps the call can still take: the prologue and one
\* iteration for each axis not yet visited.
Rank ==
  IF pc = "done" THEN 0
  ELSE IF pc = "loop" THEN Len(LHS.DimList) - I
  ELSE 1 + Max(Len(A.DimList), Len(B.DimList))

\* C21: every call terminates with one of the outcomes disjoint,
\* imprecise or exact: every step lowers the number of steps left and
\* leaves the call either returned with one of the three outcomes or in
\* front of an iteration on an axis that exists; the loop makes at most
\* one iteration per axis and the center loop of the complement at most
\* Threshold iterations per axis and side, whatever the ratio of the
\* strides.
C21_Terminates ==
  [][/\ Rank' < Rank /\ Rank' >= 0
     /\ pc' = "done" \/ (pc' = "loop" /\ I' < Len(LHS'.DimList))
     /\ pc' = "done" => Outcome(ret') \in { "disjoint", "imprecise", "exact" }
     /\ pc' = "done" <=> Rank' = 0
     /\ IterationBounded]_vars

\* A finished call on two axes whose second iteration used the whole
\* budget of center fragments on the right side.
C21_Witness ==
  /\ pc = "done" /\ MatchingCollapsed /\ Outcome(ret) = "exact" /\ rcReq
  /\ Len(B.DimList) = 2 /\ I = 1
  /\ Threshold > 0
  /\ StrideRatio(B.DimList[2], RetVal.DimList[2]) - 1 = Threshold
  /\ Cardinality(StepCenters(Appended(RC, RC0), RetVal.DimList[2], 2)) = Threshold

----------------------------------------------------------------------------
(* Frame of a call (Spec).                                                 *)

\* l1 is l with entries added at its end.
Extends(l1, l) == Len(l1) >= Len(l) /\ SubSeq(l1, 1, Len(l)) = l

\* C22: a call never changes the caller's LHS and RHS, only appends to
\* LC and RC, writes nothing to a list that was not passed, and its
\* result and appended fragments are a function of its arguments alone:
\* they are the same whichever particular solution the solver reports.
C22_PureAndAppendOnly ==
  [][/\ A' = A /\ B' = B
     /\ Extends(LC', LC) /\ Extends(RC', RC)
     /\ Extends(LC', LC0) /\ Extends(RC', RC0)
     /\ ~lcReq => LC' = << >>
     /\ ~rcReq => RC' = << >>
     /\ pc' = "done" =>
          \A t0 \in SolverShifts :
            intersect(A, B, lcReq, rcReq, LC0, RC0, Threshold, t0)
              = [ret |-> ret', LC |-> LC', RC |-> RC']]_vars

\* A call with a flat LHS that was delinearized in the callee, a left
\* list that held an entry and received more, and no right list.
C22_Witness ==
  /\ pc = "done" /\ Outcome(ret) = "exact"
  /\ A.Kind = "DEFAULT" /\ B.Kind = "COLLAPSED" /\ LHS # A
  /\ lcReq /\ ~rcReq
  /\ LC0 # << >> /\ Appended(LC, LC0) # << >>
  /\ RC = << >>

----------------------------------------------------------------------------
(* Properties of the lists of a call on several axes (SpecMulti).          *)

\* Two collapsed locations of the same object with the same number of
\* axes, at least two.
MultiAxisCollapsed ==
  /\ A.Kind = "COLLAPSED" /\ B.Kind = "COLLAPSED"
  /\ A.Ptr = B.Ptr /\ A.Ptr # NullPtr
  /\ Len(A.DimList) = Len(B.DimList) /\ Len(A.DimList) >= 2

\* C23: whenever the call returns llvm::None or the imprecise value for
\* two collapsed locations of several axes, also when the disjoint axis
\* or the DimSize mismatch is found after the first axis, LC and RC hold
\* exactly what they held before the call.
C23_NoFragmentsUnlessExact ==
  (pc = "done" /\ MultiAxisCollapsed /\ Outcome(ret) # "exact") =>
    LC = LC0 /\ RC = RC0

\* The regions of any two distinct entries appended to l share no
\* multi-index tuple.
PairwiseDisjoint(l, l0) ==
  \A j, k \in 1..Len(Appended(l, l0)) :
    j < k => Region(Appended(l, l0)[j]) \cap Region(Appended(l, l0)[k]) = {}

\* C24: for two collapsed locations of matching axes with an exact result
\* and no Threshold overflow, the regions of any two distinct fragments
\* appended to LC are disjoint, and so are those appended to RC.
C24_FragmentsAreDisjoint ==
  (/\ pc = "done" /\ MatchingCollapsed /\ Outcome(ret) = "exact"
   /\ NoOverflow(LC, LC0) /\ NoOverflow(RC, RC0)) =>
    PairwiseDisjoint(LC, LC0) /\ PairwiseDisjoint(RC, RC0)

----------------------------------------------------------------------------
(* The precondition of difference at the calls of the driver (SpecMulti).  *)

\* Is is a sub-range of D with a stride that is a multiple of D's.
SubRange(D, Is) ==
  /\ IndexSet(Is) \subseteq IndexSet(D)
  /\ Is.Step % D.Step = 0
  /\ Is.Start >= D.Start
  /\ DimEnd(Is) <= DimEnd(D)

\* C25: in every iteration that computes an intersection dimension, its
\* index set lies within the index sets of Left and of Right, its Step is
\* a multiple of Left.Step and of Right.Step, its Start is not before
\* theirs and its last element not after theirs: the precondition of
\* difference holds at lines 299 and 312.
C25_DifferencePrecondition ==
  [][AxisIntersected =>
       /\ SubRange(LHS.DimList[I + 1], IntLoc'.DimList[I + 1])
       /\ SubRange(RHS.DimList[I + 1], IntLoc'.DimList[I + 1])]_vars

\* A call on two axes with both lists requested whose intersection on
\* the second axis has twice the stride of the right side and fewer
\* elements.
C25_Witness ==
  /\ pc = "done" /\ MatchingCollapsed /\ Outcome(ret) = "exact"
  /\ lcReq /\ rcReq /\ Len(A.DimList) = 2
  /\ RetVal.DimList[2].Step = 2 * B.DimList[2].Step
  /\ RetVal.DimList[2].TripCount > 1
  /\ IndexSet(RetVal.DimList[2]) # IndexSet(B.DimList[2])
  /\ Appended(RC, RC0) # << >>

----------------------------------------------------------------------------
(* Independence of the result from the lists and the budget (SpecMulti).   *)

\* C26: for given LHS and RHS the returned value, its outcome and every
\* field of an exact result, is the one of the call without lists and
\* with Threshold 0: it is the same for every Threshold and whether or
\* not LC and RC are passed.
C26_ResultIgnoresLists ==
  pc = "done" =>
    ret = intersect(A, B, FALSE, FALSE, << >>, << >>, 0, 0).ret

\* A call with both lists whose left side ran out of budget and which
\* still returned an exact result.
C26_Witness ==
  /\ pc = "done" /\ Outcome(ret) = "exact"
  /\ lcReq /\ rcReq
  /\ A.Kind = "COLLAPSED" /\ B.Kind = "COLLAPSED"
  /\ Overflowed(LC, LC0)
  /\ Appended(RC, RC0) # << >>

----------------------------------------------------------------------------
(* The stride of the intersection (SpecAxis).                              *)

\* The least common multiple, by search.
LCM(a, b) ==
  CHOOSE m \in 1..(a * b) :
    /\ m % a = 0 /\ m % b = 0
    /\ \A n \in 1..(m - 1) : n % a # 0 \/ n % b # 0

\* C27: for two single-axis collapsed locations with an exact result, the
\* Step of the result is the least common multiple of the two Steps, and
\* it is also Step2 times the slope D of the solution; this is so for an
\* intersection of one element too.
C27_StepIsLeastCommonMultiple ==
  (pc = "done" /\ SingleAxisPair /\ Outcome(ret) = "exact") =>
    /\ RetVal.DimList[1].Step = LCM(A.DimList[1].Step, B.DimList[1].Step)
    /\ \A t0 \in SolverShifts :
         B.DimList[1].Step * AxisSolution(A.DimList[1], B.DimList[1], t0).SD
           = RetVal.DimList[1].Step

\* Strides 2 and 3 meeting in a single element.
C27_Witness ==
  /\ pc = "done" /\ SingleAxisPair /\ Outcome(ret) = "exact"
  /\ A.DimList[1].Step = 2 /\ B.DimList[1].Step = 3
  /\ A.DimList[1].TripCount > 1 /\ B.DimList[1].TripCount > 1
  /\ RetVal.DimList[1].TripCount = 1
  /\ RetVal.DimList[1].Step = 6

----------------------------------------------------------------------------
(* The markers of a call on several axes (SpecMulti).                      *)

\* The positions of the markers among the entries appended to a list.
Markers(l, l0) ==
  { j \in 1..Len(Appended(l, l0)) : Appended(l, l0)[j].Kind = "NON_COLLAPSABLE" }

\* At most one marker, and it is the last entry appended.
OneFinalMarker(l, l0) ==
  /\ Cardinality(Markers(l, l0)) <= 1
  /\ \A j \in Markers(l, l0) : j = Len(Appended(l, l0))

\* C28: a call on two collapsed locations of several axes
\* appends at most one NON_COLLAPSABLE entry to LC and at most one to RC,
\* and appends no COLLAPSED fragment for a side after its marker.
C28_OneMarkerPerSide ==
  MultiAxisCollapsed => OneFinalMarker(LC, LC0) /\ OneFinalMarker(RC, RC0)

----------------------------------------------------------------------------
(* The dimensions produced by the delinearization (SpecDelin).             *)

\* C29: whenever the delinearization of a fully bounded flat range with
\* Lower < Upper succeeds, also for a range that reaches or exceeds the
\* byte size of the source array, every produced dimension has Step 1,
\* a recovered upper index that is not below the recovered lower index,
\* TripCount >= 1 and, when DimSize > 0, Start + TripCount - 1 < DimSize.
C29_DelinearizedDimsWellFormed ==
  (pc # "call" /\ DelinAttempt /\ TargetAfter.Kind = "COLLAPSED") =>
    \A i \in 1..Len(TargetAfter.DimList) :
      LET d == TargetAfter.DimList[i]
      IN /\ d.Step = 1
         /\ RecUpper[i] >= RecLower[i]
         /\ d.TripCount >= 1
         /\ d.DimSize > 0 => d.Start + d.TripCount - 1 < d.DimSize

====
